---- MODULE Spec2Model ----
(***************************************************************************)
(* A model of the acme-lite client core: the account key (acc/acme_key.rs), *)
(* authorizations and challenge validation (order/auth.rs), the mock ACME   *)
(* server of the test suite (test.rs), and the transport, nonce pool and    *)
(* order flow those files call into.                                        *)
(*                                                                          *)
(* The specifications of the module:                                        *)
(*   SpecKey      the AcmeKey API driven by an arbitrary caller             *)
(*   SpecAuth     Auth and the challenges it hands out                      *)
(*   SpecValidate Challenge::validate, its calls and sleeps recorded        *)
(*   SpecLive     Challenge::validate against a server that may stay        *)
(*                pending forever, under fair scheduling of the caller      *)
(*   SpecProof    the challenge proofs of an account key                    *)
(*   SpecFlow     one account driving register/order/validate/finalize/     *)
(*                download through the transport against a server           *)
(*   SpecPool     concurrent requests of one account at the nonce pool      *)
(***************************************************************************)
EXTENDS Integers, Sequences, FiniteSets, TLC

\* ------------------------------------------------------------------ bounds

\* Signing keys are the scalars 1..MaxKey.
MaxKey == 3

\* Option<T>: None is the empty sequence, Some(v) the one-element sequence.
None == <<>>
Some(v) == <<v>>
IsSome(o) == o # None
Unwrap(o) == o[1]

\* ------------------------------------------------- acc/acme_key.rs: AcmeKey

VARIABLES
  key,    \* the AcmeKey under test: [signing_key, key_id]
  pem,    \* Option: the text last returned by to_pem
  hist,   \* the last AcmeKey operation: [op, arg, before, ok]
  auth,   \* the client's Auth object: [api_auth, auth_url]
  chall,  \* Option: the Challenge last obtained from auth
  vpc,    \* where Challenge::validate stands: idle, poll, sleep, returned
  delay,  \* the delay validate was called with
  trace,  \* what validate has done so far: its calls and sleeps, in order
  polled, \* Option: the ApiAuth wait_for_auth_status returned
  vres,   \* Option: the Result validate returned
  akey,   \* the account's AcmeKey, shared by all its requests
  pool,   \* the account's nonce pool: Option of a nonce
  srv,    \* the server the account talks to
  calls,  \* the Transport.call invocations so far; the last may be in flight
  sent,   \* the signed requests posted so far, one entry per attempt
  order,  \* Option: the client's Order
  fauth,  \* Option: the status of the Auth the client fetched
  opc,    \* the step a multi-request operation stands at, or idle
  npoll,  \* polls made by the polling loop in progress
  begun,  \* the operations the caller has invoked
  cert,   \* Option: the body download returned
  kret,   \* Option: how the last AcmeKey::key_id call ended
  proof,  \* Option: the proof last computed from chall and key
  sauthz, \* the status the server holds for the authorization being polled
  thr,    \* the concurrent requests of one account, each at its step
  handed, \* the nonces the pool and the server have handed to requests
  pop     \* the last operation on the nonce pool

keyVars == <<key, pem, hist>>
authVars == <<auth, chall, vpc, delay, trace, polled, vres>>
flowVars ==
  <<akey, pool, srv, calls, sent, order, fauth, opc, npoll, begun, cert>>
extraVars == <<kret, proof, sauthz, thr, handed, pop>>
vars == <<keyVars, authVars, flowVars, extraVars>>

Keys == 1..MaxKey

\* Account URLs a caller may pass to set_key_id.
KidUrls == {"acct/7728515", "acct/1"}

\* The scalar as big-endian bits, the octets PKCS#8 carries.
RECURSIVE Bits(_)
Bits(n) == IF n = 0 THEN <<>> ELSE Append(Bits(n \div 2), n % 2)

RECURSIVE FromBits(_)
FromBits(s) ==
  IF s = <<>> THEN 0
  ELSE 2 * FromBits(SubSeq(s, 1, Len(s) - 1)) + s[Len(s)]

\* SigningKey::to_pkcs8_pem: a PEM document labelled PRIVATE KEY holding the
\* algorithm identifier, the curve and the scalar's octets.
to_pkcs8_pem(sk) ==
  [label |-> "PRIVATE KEY", alg |-> "id-ecPublicKey",
   curve |-> "prime256v1", d |-> Bits(sk)]

\* SigningKey::from_pkcs8_pem: Some(scalar), or None when the text is no
\* PKCS#8 PEM of a P-256 key.
from_pkcs8_pem(text) ==
  IF /\ text.label = "PRIVATE KEY"
     /\ text.alg = "id-ecPublicKey"
     /\ text.curve = "prime256v1"
     /\ text.d # <<>>
     /\ text.d[1] = 1
     /\ FromBits(text.d) \in Keys
  THEN Some(FromBits(text.d))
  ELSE None

\* AcmeKey::from_key
from_key(signing_key) == [signing_key |-> signing_key, key_id |-> None]

\* AcmeKey::new, for the key create_p256_key() drew.
new(random_key) == from_key(random_key)

\* AcmeKey::from_pem: Ok(key) or Err("Failed to read PEM").
from_pem(text) ==
  LET pri_key == from_pkcs8_pem(text)
  IN  IF IsSome(pri_key)
      THEN [ok |-> TRUE, key |-> from_key(Unwrap(pri_key))]
      ELSE [ok |-> FALSE, err |-> "Failed to read PEM"]

\* A to_pem that emits the SEC1 document (EC PRIVATE KEY).
to_pem_sec1(k) ==
  [to_pkcs8_pem(k.signing_key) EXCEPT !.label = "EC PRIVATE KEY"]

\* AcmeKey::to_pem
to_pem(k) == to_pkcs8_pem(k.signing_key)

\* AcmeKey::signing_key
signing_key(k) == k.signing_key

\* A set_key_id that keeps a key ID already set.
set_key_id_once(k, kid) ==
  IF IsSome(k.key_id) THEN k ELSE [k EXCEPT !.key_id = Some(kid)]

\* AcmeKey::set_key_id: overwrites any previously set value.
set_key_id(k, kid) == [k EXCEPT !.key_id = Some(kid)]

\* A key_id that answers the empty string when no key ID is set.
key_id_or_default(k) ==
  [panic |-> FALSE, value |-> IF IsSome(k.key_id) THEN k.key_id ELSE Some("")]

\* AcmeKey::key_id: self.key_id.as_ref().unwrap(). The call panics if the
\* key ID is not set, and returns nothing then.
key_id(k) ==
  IF IsSome(k.key_id)
  THEN [panic |-> FALSE, value |-> k.key_id]
  ELSE [panic |-> TRUE, value |-> None]

\* Texts a caller may hand to from_pem: every exported key, and documents
\* that are no PKCS#8 P-256 key (a SEC1 label, another curve, a zero scalar,
\* an empty body).
PemInputs ==
  { to_pkcs8_pem(sk) : sk \in Keys } \cup
  { [to_pkcs8_pem(1) EXCEPT !.label = "EC PRIVATE KEY"],
    [to_pkcs8_pem(1) EXCEPT !.curve = "secp384r1"],
    [to_pkcs8_pem(1) EXCEPT !.d = <<0>>],
    [to_pkcs8_pem(1) EXCEPT !.d = <<>>] }

NoArg == "-"

KeyInit ==
  /\ \E sk \in Keys : key = new(sk)
  /\ pem = None
  /\ hist = [op |-> "new", arg |-> NoArg, before |-> None, ok |-> TRUE]
  /\ kret = None

KeyNew ==
  \E sk \in Keys :
    /\ key' = new(sk)
    /\ hist' = [op |-> "new", arg |-> NoArg, before |-> Some(key), ok |-> TRUE]
    /\ UNCHANGED <<pem, authVars, flowVars, extraVars>>

KeyToPem ==
  /\ pem' = Some(to_pem(key))
  /\ hist' = [op |-> "to_pem", arg |-> NoArg, before |-> Some(key), ok |-> TRUE]
  /\ UNCHANGED <<key, authVars, flowVars, extraVars>>

\* from_pem of a caller's text or of the text to_pem returned; the caller
\* goes on with the imported key when the import succeeds.
KeyFromPem ==
  \E text \in PemInputs \cup {pem[i] : i \in DOMAIN pem} :
    LET r == from_pem(text)
    IN  /\ key' = IF r.ok THEN r.key ELSE key
        /\ hist' = [op |-> "from_pem", arg |-> text, before |-> Some(key),
                    ok |-> r.ok]
        /\ UNCHANGED <<pem, authVars, flowVars, extraVars>>

KeySetKeyId ==
  \E kid \in KidUrls :
    /\ key' = set_key_id(key, kid)
    /\ hist' = [op |-> "set_key_id", arg |-> kid, before |-> Some(key),
                ok |-> TRUE]
    /\ UNCHANGED <<pem, authVars, flowVars, extraVars>>

\* A key_id call; the key is borrowed and stays as it is. A caller that
\* catches the unwinding goes on with the same key.
KeyKeyId ==
  /\ kret' = Some(key_id(key))
  /\ hist' = [op |-> "key_id", arg |-> NoArg, before |-> Some(key),
              ok |-> ~ key_id(key).panic]
  /\ UNCHANGED <<key, pem, proof, sauthz, thr, handed, pop, authVars,
               flowVars>>

\* The key variables of a specification that does not exercise the AcmeKey API.
KeyParked ==
  /\ key = new(1)
  /\ pem = None
  /\ hist = [op |-> "new", arg |-> NoArg, before |-> None, ok |-> TRUE]
  /\ kret = None

\* --------------------------------------- order/auth.rs: Auth and Challenge

AuthStatuses ==
  {"pending", "valid", "invalid", "deactivated", "expired", "revoked"}
ChallStatuses == {"pending", "processing", "valid", "invalid"}
ChallTypes == {"http-01", "tls-alpn-01", "dns-01"}

\* Challenges of one Auth object in SpecAuth.
MaxChallenges == 2

\* Polls of the authorization URL one validate may make before the server
\* leaves pending (or a request fails).
MaxPolls == 3

AuthUrl == "/acme/authz/YTqpYUthlVfwBncUufE8IRWLMSRqcSs"
ChallUrl(type) ==
  CASE type = "http-01" ->
         "/acme/challenge/YTqpYUthlVfwBncUufE8IRWLMSRqcSs/216789597"
    [] type = "tls-alpn-01" ->
         "/acme/challenge/YTqpYUthlVfwBncUufE8IRWLMSRqcSs/216789598"
    [] type = "dns-01" ->
         "/acme/challenge/YTqpYUthlVfwBncUufE8IRWLMSRqcSs/216789599"
ChallToken(type) ==
  CASE type = "http-01" -> "MUi-gqeOJdRkSb_YR2eaMxQBqf6al8dgt_dOttSWb0w"
    [] type = "tls-alpn-01" -> "WCdRWkCy4THTD_j5IH4ISAzr59lFIg5wzYmKxuOJ1lU"
    [] type = "dns-01" -> "RRo2ZcXAEqxKvMH8RGcATjSK1KknLEUmauwfQ5i3gG8"

\* An ApiChallenge as the server sends it.
ApiChallenge(type, status, error) ==
  [type |-> type, status |-> status, url |-> ChallUrl(type),
   token |-> ChallToken(type), error |-> error]

\* The body post_authz of the mock server answers with: a pending
\* authorization with pending http-01, tls-alpn-01 and dns-01 challenges.
post_authz ==
  [status |-> "pending",
   challenges |-> << ApiChallenge("http-01", "pending", None),
                     ApiChallenge("tls-alpn-01", "pending", None),
                     ApiChallenge("dns-01", "pending", None) >>]

\* ApiAuth::is_status_pending, ApiChallenge::is_status_pending
is_status_pending(x) == x.status = "pending"

\* ApiAuth::is_status_valid
is_status_valid(x) == x.status = "valid"

\* The first challenge of the given type, as ApiAuth::http_challenge,
\* dns_challenge and tls_alpn_challenge find it.
RECURSIVE find_challenge(_, _)
find_challenge(challenges, type) ==
  IF challenges = <<>> THEN None
  ELSE IF Head(challenges).type = type THEN Some(Head(challenges))
  ELSE find_challenge(Tail(challenges), type)

\* Auth::new
Auth_new(api_auth, auth_url) == [api_auth |-> api_auth, auth_url |-> auth_url]

\* Auth::need_challenge
need_challenge(a) == ~ is_status_valid(a.api_auth)

\* Challenge::new
Challenge_new(api_challenge, auth_url) ==
  [api_challenge |-> api_challenge, auth_url |-> auth_url]

\* Auth::http_challenge, Auth::dns_challenge, Auth::tls_alpn_challenge
get_challenge(a, type) ==
  LET c == find_challenge(a.api_auth.challenges, type)
  IN  IF IsSome(c) THEN Some(Challenge_new(Unwrap(c), a.auth_url)) ELSE None

http_challenge(a) == get_challenge(a, "http-01")
dns_challenge(a) == get_challenge(a, "dns-01")
tls_alpn_challenge(a) == get_challenge(a, "tls-alpn-01")

\* A need_validate that is true unless the challenge is valid.
need_validate_unless_valid(c) == ~ is_status_valid(c.api_challenge)

\* Challenge::need_validate
need_validate(c) == is_status_pending(c.api_challenge)

\* Sequences over S of length 0..n.
SeqUpTo(S, n) == UNION { [1..k -> S] : k \in 0..n }

\* The authorizations a server may answer authorizations() with: any status,
\* up to MaxChallenges challenges of any type and status.
AuthInputs ==
  { [status |-> s, challenges |-> cs] :
      s \in AuthStatuses,
      cs \in SeqUpTo({ ApiChallenge(t, st, None) :
                          t \in ChallTypes, st \in ChallStatuses },
                     MaxChallenges) }

ValidateParked ==
  /\ vpc = "idle"
  /\ delay = 0
  /\ trace = <<>>
  /\ polled = None
  /\ vres = None

AuthParked ==
  /\ auth = Auth_new(post_authz, AuthUrl)
  /\ chall = None
  /\ ValidateParked

AuthInit ==
  /\ \E api_auth \in AuthInputs : auth = Auth_new(api_auth, AuthUrl)
  /\ chall = None
  /\ ValidateParked

HttpChallenge ==
  /\ vpc = "idle"
  /\ chall' = http_challenge(auth)
  /\ UNCHANGED <<auth, vpc, delay, trace, polled, vres, keyVars, flowVars,
               extraVars>>

DnsChallenge ==
  /\ vpc = "idle"
  /\ chall' = dns_challenge(auth)
  /\ UNCHANGED <<auth, vpc, delay, trace, polled, vres, keyVars, flowVars,
               extraVars>>

TlsAlpnChallenge ==
  /\ vpc = "idle"
  /\ chall' = tls_alpn_challenge(auth)
  /\ UNCHANGED <<auth, vpc, delay, trace, polled, vres, keyVars, flowVars,
               extraVars>>

\* ------------------------------------ order/auth.rs: Challenge::validate

\* Delays a caller may pass to validate.
MaxDelay == 2
Delays == 1..MaxDelay

\* The payloads of ApiEmptyObject and ApiEmptyString.
EmptyObject == "{}"
EmptyString == ""

\* Problem objects a server may attach to a challenge: one without detail,
\* two with.
ChallErrors ==
  { [type |-> "urn:ietf:params:acme:error:dns", detail |-> None],
    [type |-> "urn:ietf:params:acme:error:unauthorized",
     detail |-> Some("Invalid response")],
    [type |-> "urn:ietf:params:acme:error:connection",
     detail |-> Some("Timeout")] }

\* What the server may report of one challenge while the authorization is
\* polled.
ServerChallStates ==
  { [status |-> "pending", error |-> None],
    [status |-> "valid", error |-> None] } \cup
  { [status |-> "invalid", error |-> Some(e)] : e \in ChallErrors }

\* The authorization bodies a poll may be answered with: the authorization
\* of post_authz with a status and per-challenge states of the server's.
PolledAuths ==
  { [status |-> s,
     challenges |->
       [i \in DOMAIN post_authz.challenges |->
          [post_authz.challenges[i] EXCEPT !.status = f[i].status,
                                           !.error = f[i].error]]] :
      s \in AuthStatuses,
      f \in [DOMAIN post_authz.challenges -> ServerChallStates] }

\* The Auth objects validate is run on: the mock server's authorization,
\* under any authorization status and challenge status.
ValidateAuths ==
  { [status |-> s,
     challenges |->
       [i \in DOMAIN post_authz.challenges |->
          [post_authz.challenges[i] EXCEPT !.status = cs]]] :
      s \in AuthStatuses, cs \in ChallStatuses }

CallEvent(url, payload, res) ==
  [ev |-> "call", url |-> url, payload |-> payload, res |-> res, dur |-> 0]

\* A sleep that lasts longer than the duration asked for.
SleepEvent_longer(dur) ==
  [ev |-> "sleep", url |-> "", payload |-> "", res |-> "", dur |-> dur + 1]

\* thread::sleep(dur)
SleepEvent(dur) ==
  [ev |-> "sleep", url |-> NoArg, payload |-> NoArg, res |-> NoArg,
   dur |-> dur]

IsCall(e) == e.ev = "call"
Calls(t) == SelectSeq(t, IsCall)

Ok == [ok |-> TRUE, err |-> <<>>]
Err(e) == [ok |-> FALSE, err |-> e]

\* validate, line 230: the URL the trigger is posted to.
trigger_url(c) == c.api_challenge.url

\* A poll of the challenge's own URL.
poll_url_chall(c) == c.api_challenge.url

\* validate, line 234: the URL wait_for_auth_status polls.
poll_url(c) == c.auth_url

\* An error search that looks at the first entry of the list only.
first_error_head(challenges) ==
  IF challenges = <<>> THEN None ELSE Head(challenges).error

\* validate, lines 237-241: the error of the first challenge that has one.
RECURSIVE first_error(_)
first_error(challenges) ==
  IF challenges = <<>> THEN None
  ELSE IF IsSome(Head(challenges).error) THEN Head(challenges).error
  ELSE first_error(Tail(challenges))

\* validate, lines 242-250: the message of the failure.
validation_error(a) ==
  LET error == first_error(a.challenges)
      reason == IF IsSome(error)
                THEN <<"Failed: ",
                       IF IsSome(Unwrap(error).detail)
                       THEN Unwrap(Unwrap(error).detail)
                       ELSE Unwrap(error).type>>
                ELSE <<"Validation failed and no error found">>
  IN  <<"Validation failed: ", reason>>

\* A verdict that fails on the status invalid only.
validate_result_invalid_only(a) ==
  IF a.status = "invalid" THEN Err(validation_error(a)) ELSE Ok

\* validate, lines 236-253: the verdict on the authorization the loop
\* returned.
validate_result(a) ==
  IF ~ is_status_valid(a) THEN Err(validation_error(a)) ELSE Ok

ValidateInit ==
  /\ \E api_auth \in ValidateAuths : auth = Auth_new(api_auth, AuthUrl)
  /\ chall = None
  /\ ValidateParked

\* A `?` that swallows the failure and has the request made again.
propagate_retry(res) == [vpc |-> "poll", vres |-> None]

\* The `?` after call and after read_json (lines 230-231 and 282-283): a
\* failure ends validate at once, with that failure as its result.
propagate(res) == [vpc |-> "returned", vres |-> Some(Err(<<res>>))]

\* A loop that breaks on whatever authorization it reads.
break_loop_always(a) == TRUE

\* wait_for_auth_status, lines 284-286: the loop breaks when the
\* authorization read is not pending.
break_loop(a) == ~ is_status_pending(a)

\* A validate that replaces the challenge it holds by the one of the same
\* type in the authorization it polled.
self_after_validate_refreshed(c, a) ==
  LET f == find_challenge(a.challenges, c.api_challenge.type)
  IN  IF IsSome(f) THEN Challenge_new(Unwrap(f), c.auth_url) ELSE c

\* validate, line 229: the challenge is borrowed immutably (&self); the
\* authorization polled is used for the verdict and dropped.
self_after_validate(c, a) == c

\* validate, lines 230-232: the trigger POST and the parse of its answer.
\* The call fails, or its body is no challenge, or both succeed.
ValidateTrigger ==
  /\ vpc = "idle"
  /\ IsSome(chall)
  /\ \E d \in Delays, res \in {"err", "bad_json", "ok"} :
       /\ delay' = d
       /\ trace' = <<CallEvent(trigger_url(Unwrap(chall)), EmptyObject, res)>>
       /\ IF res = "ok"
          THEN vpc' = "poll" /\ vres' = None
          ELSE vpc' = propagate(res).vpc /\ vres' = propagate(res).vres
  /\ UNCHANGED <<auth, chall, polled, keyVars, flowVars, extraVars>>

\* wait_for_auth_status, lines 282-286, and the rest of validate when the
\* loop breaks: one poll. The call fails, or its body is no authorization,
\* or it is an authorization: pending (the loop goes on to sleep) or not
\* (the loop breaks and validate returns its verdict).
ValidatePoll ==
  /\ vpc = "poll"
  /\ \/ \E res \in {"err", "bad_json"} :
          /\ trace' = Append(trace,
                 CallEvent(poll_url(Unwrap(chall)), EmptyString, res))
          /\ vpc' = propagate(res).vpc
          /\ vres' = propagate(res).vres
          /\ UNCHANGED <<polled, chall>>
     \/ \E a \in PolledAuths :
          /\ is_status_pending(a) => Len(Calls(trace)) < MaxPolls
          /\ trace' = Append(trace,
                 CallEvent(poll_url(Unwrap(chall)), EmptyString, a.status))
          /\ IF break_loop(a)
             THEN /\ vpc' = "returned"
                  /\ polled' = Some(a)
                  /\ vres' = Some(validate_result(a))
                  /\ chall' = Some(self_after_validate(Unwrap(chall), a))
             ELSE vpc' = "sleep" /\ UNCHANGED <<polled, vres, chall>>
  /\ UNCHANGED <<auth, delay, keyVars, flowVars, extraVars>>

\* wait_for_auth_status, line 287: thread::sleep(delay).
ValidateSleep ==
  /\ vpc = "sleep"
  /\ trace' = Append(trace, SleepEvent(delay))
  /\ vpc' = "poll"
  /\ UNCHANGED <<auth, chall, delay, polled, vres, keyVars, flowVars,
               extraVars>>

\* -------------------------------------------- test.rs: the mock ACME server

NewNonceUrl == "/acme/new-nonce"
NewAccountUrl == "/acme/new-acct"
NewOrderUrl == "/acme/new-order"
AccountUrl == "/acme/acct/7728515"
OrderUrl == "/acme/order/YTqpYUthlVfwBncUufE8"
FinalizeUrl == "/acme/finalize/7738992/18234324"
CertUrl == "/acme/cert/fae41c070f967713109028"

\* The Replay-Nonce value head_new_nonce answers with.
MockNonce == <<"8_uBBV3N2DBRJczhoiB46ugJKUkUHxGzVe6xIMpjHFM", 0>>

\* A response: status code, Replay-Nonce and Location headers, the type of
\* its problem document (application/problem+json) if it is one, and the
\* parts of its body the client reads.
Response(code, nonce, location, problem, kind, status) ==
  [code |-> code, nonce |-> nonce, location |-> location,
   problem |-> problem, body |-> [kind |-> kind, status |-> status]]

DirectoryUrl == "/directory"

\* get_directory, head_new_nonce, post_new_acct, post_new_order,
\* post_get_order, post_authz, post_finalize, post_certificate and the 404 of
\* route_request: get_directory answers 200 with the directory document;
\* only head_new_nonce sets a Replay-Nonce header, and it is the same value
\* every time.
handlers(method, path) ==
  CASE method = "GET" /\ path = DirectoryUrl ->
         Response(200, None, None, None, "directory", "")
    [] method = "HEAD" /\ path = NewNonceUrl ->
         Response(204, Some(MockNonce), None, None, "empty", "")
    [] method = "POST" /\ path = NewAccountUrl ->
         Response(201, None, Some(AccountUrl), None, "account", "valid")
    [] method = "POST" /\ path = NewOrderUrl ->
         Response(201, None, Some(OrderUrl), None, "order", "pending")
    [] method = "POST" /\ path = OrderUrl ->
         Response(200, None, None, None, "order", "<STATUS>")
    [] method = "POST" /\ path = AuthUrl ->
         Response(201, None, None, None, "authz", post_authz.status)
    [] method = "POST" /\ path = FinalizeUrl ->
         Response(200, None, None, None, "empty", "")
    [] method = "POST" /\ path = CertUrl ->
         Response(200, None, None, None, "cert", "CERT HERE")
    [] OTHER ->
         Response(404, None, None, None, "empty", "")

\* A mock server that sets a Replay-Nonce header on its POST responses too.
route_request_with_nonce(method, path) ==
  IF method = "POST"
  THEN [handlers(method, path) EXCEPT !.nonce = Some(<<"Zm9vYmFy", 0>>)]
  ELSE handlers(method, path)

\* route_request: the answer depends on method and path alone.
route_request(method, path) == handlers(method, path)

\* ------------------------------------------------ an RFC 8555 ACME server

\* badNonce answers a server gives in one run.
MaxBadNonce == 3

\* Other failures (a problem document, a bare 5xx) a server gives in one run.
MaxFaults == 1

\* Polls one polling loop of the account flow makes before the server
\* leaves pending (or processing).
MaxFlowPolls == 2

BadNonceType == "urn:ietf:params:acme:error:badNonce"

\* The server's next unused nonce, and the server once it is issued.
FreshNonce(s) == <<"srv", s.next>>
Issued(s) == [s EXCEPT !.next = @ + 1]

\* What a conforming server may answer a signed POST of url with, each with
\* the server's next state: it rejects the nonce, or fails, or handles the
\* request by the resource's state machine. Every answer carries a fresh
\* Replay-Nonce. mayStay: a pending or processing resource may stay so.
AcmeAnswers(s, url, mayStay) ==
  LET n == Some(FreshNonce(s))
      s1 == Issued(s)
      R(code, location, problem, kind, status, next) ==
        [resp |-> Response(code, n, location, problem, kind, status),
         srv |-> next]
      rejected ==
        IF s.bad < MaxBadNonce
        THEN {R(400, None, Some(BadNonceType), "empty", "",
                [s1 EXCEPT !.bad = @ + 1])}
        ELSE {}
      faulty ==
        IF s.faults < MaxFaults
        THEN {R(500, None, Some("urn:ietf:params:acme:error:serverInternal"),
                "empty", "", [s1 EXCEPT !.faults = @ + 1]),
              R(502, None, None, "empty", "", [s1 EXCEPT !.faults = @ + 1])}
        ELSE {}
      handled ==
        CASE url = NewAccountUrl ->
               {R(201, Some(AccountUrl), None, "account", "valid", s1)}
          [] url = NewOrderUrl ->
               LET st == IF s.authz = "valid" THEN "ready" ELSE "pending"
               IN  {R(201, Some(OrderUrl), None, "order", st,
                      [s1 EXCEPT !.order = st])}
          [] url \in {ChallUrl(t) : t \in ChallTypes} ->
               {R(200, None, None, "challenge", "processing",
                  [s1 EXCEPT !.triggered = TRUE])}
          [] url = AuthUrl ->
               IF s.authz = "pending" /\ s.triggered
               THEN {R(200, None, None, "authz", a,
                       [s1 EXCEPT !.authz = a,
                                  !.order = IF s.order # "pending" THEN @
                                            ELSE CASE a = "valid" -> "ready"
                                                   [] a = "invalid" -> "invalid"
                                                   [] OTHER -> @]) :
                      a \in {"valid", "invalid"} \cup
                            (IF mayStay THEN {"pending"} ELSE {})}
               ELSE {R(200, None, None, "authz", s.authz, s1)}
          [] url = OrderUrl ->
               IF s.order = "processing"
               THEN {R(200, None, None, "order", o, [s1 EXCEPT !.order = o]) :
                      o \in {"valid", "invalid"} \cup
                            (IF mayStay THEN {"processing"} ELSE {})}
               ELSE {R(200, None, None, "order", s.order, s1)}
          [] url = FinalizeUrl ->
               IF s.order = "ready"
               THEN {R(200, None, None, "order", "processing",
                       [s1 EXCEPT !.order = "processing"])}
               ELSE {R(403, None,
                       Some("urn:ietf:params:acme:error:orderNotReady"),
                       "empty", "", s1)}
          [] url = CertUrl ->
               IF s.order = "valid"
               THEN {R(200, None, None, "cert", "-----BEGIN CERTIFICATE-----",
                       s1)}
               ELSE {R(404, None, None, "empty", "", s1)}
          [] OTHER -> {R(404, None, None, "empty", "", s1)}
  IN  rejected \cup faulty \cup handled

\* The answers of the server, mock or conforming, to a signed POST.
PostAnswers(s, url, mayStay) ==
  IF s.mode = "mock"
  THEN {[resp |-> route_request("POST", url), srv |-> s]}
  ELSE AcmeAnswers(s, url, mayStay)

\* The answer of the server to HEAD newNonce.
HeadNewNonce(s) ==
  IF s.mode = "mock"
  THEN [resp |-> route_request("HEAD", NewNonceUrl), srv |-> s]
  ELSE [resp |-> Response(204, Some(FreshNonce(s)), None, None, "empty", ""),
        srv |-> Issued(s)]

\* What the server would report of the order and of its authorization.
SrvOrderStatus(s) ==
  IF s.mode = "mock" THEN route_request("POST", OrderUrl).body.status
  ELSE s.order
SrvAuthzStatus(s) ==
  IF s.mode = "mock" THEN route_request("POST", AuthUrl).body.status
  ELSE s.authz

\* ------------------------------------------------------------- nonce pool

\* An acquire that hands out the stored nonce and leaves it in the pool.
acquire_keep(p, s) ==
  IF IsSome(p)
  THEN [nonce |-> Unwrap(p), pool |-> p, srv |-> s]
  ELSE LET h == HeadNewNonce(s)
       IN  [nonce |-> Unwrap(h.resp.nonce), pool |-> None, srv |-> h.srv]

\* acquire: the stored nonce, clearing the pool; with an empty pool the
\* Replay-Nonce of a HEAD newNonce, leaving the pool empty.
acquire(p, s) ==
  IF IsSome(p)
  THEN [nonce |-> Unwrap(p), pool |-> None, srv |-> s]
  ELSE LET h == HeadNewNonce(s)
       IN  [nonce |-> Unwrap(h.resp.nonce), pool |-> None, srv |-> h.srv]

\* An offer that keeps a nonce already stored.
offer_keep_first(p, header) == IF IsSome(p) THEN p ELSE header

\* offer: store the response's Replay-Nonce if it has one, overwriting.
offer(p, header) == IF IsSome(header) THEN header ELSE p

\* invalidate: clear any stored value.
invalidate(p) == None

\* --------------------------------------------------- JWS signer, transport

\* Total attempts Transport.call makes for one logical request.
MaxAttempts == 3

\* The JWK projection of the account key.
Jwk(k) == <<"P-256", "EC", k.signing_key>>

\* A signing mode that embeds the jwk in every request.
signing_mode_always_jwk(url, k) == "jwk"

\* call, step 1: jwk if and only if url is newAccount or the account has no
\* kid yet; otherwise kid.
signing_mode(url, k) ==
  IF url = NewAccountUrl \/ k.key_id = None THEN "jwk" ELSE "kid"

\* The protected header of the JWS: exactly one of jwk and kid, the nonce,
\* the url.
protected(url, k, nonce) ==
  [alg |-> "ES256",
   jwk |-> IF signing_mode(url, k) = "jwk" THEN Some(Jwk(k)) ELSE None,
   kid |-> IF signing_mode(url, k) = "jwk" THEN None ELSE k.key_id,
   nonce |-> nonce,
   url |-> url]

\* call, steps 6-8: the class of a response.
classify(resp) ==
  IF resp.code \in 200..299 THEN "ok"
  ELSE IF IsSome(resp.problem)
       THEN IF Unwrap(resp.problem) = BadNonceType THEN "badNonce"
            ELSE "problem"
       ELSE "other"

\* A retry rule with no bound on the attempts.
should_retry_unbounded(class, attempts) == class = "badNonce"

\* call, step 7: retry on badNonce, up to MaxAttempts attempts in total.
should_retry(class, attempts) ==
  class = "badNonce" /\ attempts < MaxAttempts

\* What call returns for the response of its last attempt.
call_outcome(class) ==
  CASE class = "ok" -> "ok"
    [] class = "problem" -> "AcmeProblem"
    [] class = "badNonce" -> "TransportFailure"
    [] class = "other" -> "TransportFailure"

\* ------------------------------------------------------------- order flow

\* A finalize that posts unless the order is invalid.
finalize_ready_lenient(status) == status # "invalid"

\* finalize: the order's status must be ready.
finalize_ready(status) == status = "ready"

\* download: the order's status must be valid.
download_ready(status) == status = "valid"

Last(q) == q[Len(q)]
InFlight == calls # <<>> /\ Last(calls).outcome = "inflight"
Quiet == ~ InFlight /\ opc = "idle"

Begin(op, url, payload) ==
  /\ calls' = Append(calls, [op |-> op, url |-> url, payload |-> payload,
                             att |-> 0, outcome |-> "inflight"])
  /\ UNCHANGED <<akey, pool, srv, sent, order, fauth, cert>>

FlowInit ==
  /\ akey = new(1)
  /\ pool = None
  /\ \E m \in {"mock", "acme"}, a \in {"pending", "valid"} :
       srv = [mode |-> m, next |-> 1, bad |-> 0, faults |-> 0,
              authz |-> IF m = "mock" THEN "pending" ELSE a,
              order |-> "none", triggered |-> FALSE]
  /\ calls = <<>>
  /\ sent = <<>>
  /\ order = None
  /\ fauth = None
  /\ opc = "idle"
  /\ npoll = 0
  /\ begun = {}
  /\ cert = None

FlowParked ==
  /\ akey = new(1)
  /\ pool = None
  /\ srv = [mode |-> "mock", next |-> 1, bad |-> 0, faults |-> 0,
            authz |-> "pending", order |-> "none", triggered |-> FALSE]
  /\ calls = <<>>
  /\ sent = <<>>
  /\ order = None
  /\ fauth = None
  /\ opc = "idle"
  /\ npoll = 0
  /\ begun = {}
  /\ cert = None

\* register_account: POST newAccount.
Register ==
  /\ Quiet
  /\ "register" \notin begun
  /\ begun' = begun \cup {"register"}
  /\ Begin("register", NewAccountUrl, "contact")
  /\ UNCHANGED <<opc, npoll, keyVars, authVars, extraVars>>

\* new_order: POST newOrder, by a registered account.
NewOrder ==
  /\ Quiet
  /\ IsSome(akey.key_id)
  /\ "new_order" \notin begun
  /\ begun' = begun \cup {"new_order"}
  /\ Begin("new_order", NewOrderUrl, "identifiers")
  /\ UNCHANGED <<opc, npoll, keyVars, authVars, extraVars>>

\* authorizations: POST-as-GET of the order's authorization URL.
Authorizations ==
  /\ Quiet
  /\ IsSome(order)
  /\ "authorizations" \notin begun
  /\ begun' = begun \cup {"authorizations"}
  /\ Begin("authorizations", AuthUrl, EmptyString)
  /\ UNCHANGED <<opc, npoll, keyVars, authVars, extraVars>>

\* Challenge::validate on the http challenge of the fetched authorization:
\* the trigger POST.
Validate ==
  /\ Quiet
  /\ IsSome(fauth)
  /\ "validate" \notin begun
  /\ begun' = begun \cup {"validate"}
  /\ Begin("trigger", trigger_url(Unwrap(http_challenge(
             Auth_new(post_authz, AuthUrl)))), EmptyObject)
  /\ UNCHANGED <<opc, npoll, keyVars, authVars, extraVars>>

\* wait_for_auth_status: the next poll of the authorization URL.
PollAuth ==
  /\ ~ InFlight
  /\ opc = "validate_poll"
  /\ Begin("poll_auth", poll_url(Unwrap(http_challenge(
             Auth_new(post_authz, AuthUrl)))), EmptyString)
  /\ npoll' = npoll + 1
  /\ UNCHANGED <<opc, begun, keyVars, authVars, extraVars>>

\* finalize: with a pending order, poll the order first; with a ready one,
\* go on to the POST; otherwise return an error with no request made.
Finalize ==
  /\ Quiet
  /\ IsSome(order)
  /\ "finalize" \notin begun
  /\ begun' = begun \cup {"finalize"}
  /\ IF Unwrap(order).status = "pending"
     THEN /\ Begin("refresh_order", Unwrap(order).url, EmptyString)
          /\ UNCHANGED opc
     ELSE /\ opc' = IF finalize_ready(Unwrap(order).status)
                    THEN "finalize_post" ELSE "idle"
          /\ UNCHANGED <<akey, pool, srv, calls, sent, order, fauth, cert>>
  /\ UNCHANGED <<npoll, keyVars, authVars, extraVars>>

\* finalize: POST the CSR to the order's finalize URL.
FinalizePost ==
  /\ ~ InFlight
  /\ opc = "finalize_post"
  /\ Begin("finalize", FinalizeUrl, "csr")
  /\ npoll' = 0
  /\ UNCHANGED <<opc, begun, keyVars, authVars, extraVars>>

\* finalize: the next poll of the order URL.
PollOrder ==
  /\ ~ InFlight
  /\ opc = "finalize_poll"
  /\ Begin("poll_order", Unwrap(order).url, EmptyString)
  /\ npoll' = npoll + 1
  /\ UNCHANGED <<opc, begun, keyVars, authVars, extraVars>>

\* download: POST-as-GET of the certificate URL of a valid order; an error
\* with no request made for any other order.
Download ==
  /\ Quiet
  /\ IsSome(order)
  /\ "download" \notin begun
  /\ begun' = begun \cup {"download"}
  /\ IF download_ready(Unwrap(order).status)
     THEN Begin("download", CertUrl, EmptyString)
     ELSE UNCHANGED <<akey, pool, srv, calls, sent, order, fauth, cert>>
  /\ UNCHANGED <<opc, npoll, keyVars, authVars, extraVars>>

\* What the operation in progress does with the outcome of its call.
Complete(op, outcome, resp) ==
  LET ok == outcome = "ok"
      st == resp.body.status
  IN  /\ akey' = IF op = "register" /\ ok
                 THEN set_key_id(akey, Unwrap(resp.location)) ELSE akey
      /\ order' = CASE op = "new_order" /\ ok ->
                         Some([url |-> Unwrap(resp.location), status |-> st])
                    [] op \in {"refresh_order", "poll_order", "finalize"}
                         /\ ok /\ resp.body.kind = "order" ->
                         Some([Unwrap(order) EXCEPT !.status = st])
                    [] OTHER -> order
      /\ fauth' = IF op = "authorizations" /\ ok THEN Some(st) ELSE fauth
      /\ cert' = IF op = "download" /\ ok THEN Some(st) ELSE cert
      /\ opc' = CASE op = "trigger" ->
                       IF ok THEN "validate_poll" ELSE "idle"
                  [] op = "poll_auth" ->
                       IF ok /\ st = "pending" THEN "validate_poll" ELSE "idle"
                  [] op = "refresh_order" ->
                       IF ok /\ finalize_ready(st) THEN "finalize_post"
                       ELSE "idle"
                  [] op = "finalize" ->
                       IF ok THEN "finalize_poll" ELSE "idle"
                  [] op = "poll_order" ->
                       IF ok /\ st = "processing" THEN "finalize_poll"
                       ELSE "idle"
                  [] OTHER -> opc
      /\ npoll' = IF op = "trigger" THEN 0 ELSE npoll

\* Transport.call, one attempt: acquire a nonce, sign, POST, offer the
\* response's Replay-Nonce, classify; on badNonce invalidate the pool and go
\* round again, else return to the operation that called.
TransportAttempt ==
  /\ InFlight
  /\ LET c == Last(calls)
         got == acquire(pool, srv)
         header == protected(c.url, akey, got.nonce)
     IN  \E ans \in PostAnswers(got.srv, c.url, npoll < MaxFlowPolls) :
           LET class == classify(ans.resp)
               offered == offer(got.pool, ans.resp.nonce)
               retry == should_retry(class, c.att + 1)
               outcome == IF retry THEN "inflight" ELSE call_outcome(class)
           IN  /\ sent' = Append(sent,
                     [call |-> Len(calls), header |-> header,
                      payload |-> c.payload, class |-> class,
                      acct_kid |-> akey.key_id,
                      srv_order |-> SrvOrderStatus(got.srv),
                      srv_authz |-> SrvAuthzStatus(got.srv)])
               /\ pool' = IF class = "badNonce" THEN invalidate(offered)
                          ELSE offered
               /\ srv' = ans.srv
               /\ calls' = [calls EXCEPT ![Len(calls)] =
                              [c EXCEPT !.att = @ + 1, !.outcome = outcome]]
               /\ IF retry
                  THEN UNCHANGED <<akey, order, fauth, cert, opc, npoll>>
                  ELSE Complete(c.op, outcome, ans.resp)
  /\ UNCHANGED <<begun, keyVars, authVars, extraVars>>

\* ------------------------------------------- order/auth.rs: challenge proofs

\* SHA-256 and unpadded base64url are modelled as free constructors: each
\* wraps its input in a tag, so that two applications differ from one, an
\* encoded value differs from the bytes it encodes, and equal outputs come
\* from equal inputs only.
sha256(bytes) == <<"sha256", bytes>>
base64url(bytes) == <<"base64url", bytes>>

\* JwkThumb from a Jwk: the members crv, kty, x and y. The public point is
\* determined by the signing key, which stands for its coordinates.
JwkThumb(jwk) ==
  [crv |-> jwk[1], kty |-> jwk[2], x |-> <<"x", jwk[3]>>,
   y |-> <<"y", jwk[3]>>]

\* serde_json::to_string of a JwkThumb: the members in declaration order.
to_string(thumb) ==
  <<"crv", thumb.crv, "kty", thumb.kty, "x", thumb.x, "y", thumb.y>>

\* A key_authorization that never applies the extra SHA-256.
key_authorization_plain(token, k, extra_sha256) ==
  <<token, ".", base64url(sha256(to_string(JwkThumb(Jwk(k)))))>>

\* key_authorization, lines 262-274.
key_authorization(token, k, extra_sha256) ==
  LET jwk == Jwk(k)
      jwk_thumb == JwkThumb(jwk)
      jwk_json == to_string(jwk_thumb)
      digest == base64url(sha256(jwk_json))
      key_auth == <<token, ".", digest>>
  IN  IF extra_sha256 THEN base64url(sha256(key_auth)) ELSE key_auth

\* An http_proof that binds the proof to the account URL of the key.
http_proof_with_kid(c, k) ==
  <<key_authorization(c.api_challenge.token, k, FALSE), k.key_id>>

\* Challenge<Http>::http_proof
http_proof(c, k) == key_authorization(c.api_challenge.token, k, FALSE)

\* Challenge<Dns>::dns_proof
dns_proof(c, k) == key_authorization(c.api_challenge.token, k, TRUE)

\* Challenge<TlsAlpn>::tls_alpn_proof
tls_alpn_proof(c, k) ==
  sha256(key_authorization(c.api_challenge.token, k, FALSE))

\* The proof method Challenge<A> offers for its type A.
proof_of(type, c, k) ==
  CASE type = "http-01" -> http_proof(c, k)
    [] type = "dns-01" -> dns_proof(c, k)
    [] type = "tls-alpn-01" -> tls_alpn_proof(c, k)

\* The authorizations proofs are computed for: pending, with its three
\* challenges in any one status.
ProofAuths == { a \in ValidateAuths : a.status = "pending" }

ProofParked == proof = None

ProofInit ==
  /\ \E api_auth \in ProofAuths : auth = Auth_new(api_auth, AuthUrl)
  /\ chall = None
  /\ ValidateParked
  /\ proof = None

\* What a proof call leaves behind: the proof, with the challenge and the
\* key it was computed from.
ProofRecord(type, c, k) ==
  [type |-> type, of |-> c, key |-> k, value |-> proof_of(type, c, k)]

\* http_proof on the Challenge<Http> held, with the account key as it is.
HttpProof ==
  /\ IsSome(chall)
  /\ Unwrap(chall).api_challenge.type = "http-01"
  /\ proof' = Some(ProofRecord("http-01", Unwrap(chall), key))
  /\ UNCHANGED <<kret, sauthz, thr, handed, pop, keyVars, authVars,
               flowVars>>

\* dns_proof on the Challenge<Dns> held.
DnsProof ==
  /\ IsSome(chall)
  /\ Unwrap(chall).api_challenge.type = "dns-01"
  /\ proof' = Some(ProofRecord("dns-01", Unwrap(chall), key))
  /\ UNCHANGED <<kret, sauthz, thr, handed, pop, keyVars, authVars,
               flowVars>>

\* tls_alpn_proof on the Challenge<TlsAlpn> held.
TlsAlpnProof ==
  /\ IsSome(chall)
  /\ Unwrap(chall).api_challenge.type = "tls-alpn-01"
  /\ proof' = Some(ProofRecord("tls-alpn-01", Unwrap(chall), key))
  /\ UNCHANGED <<kret, sauthz, thr, handed, pop, keyVars, authVars,
               flowVars>>

\* ------------------------------- concurrent requests at the nonce pool

\* Requests of one account that run concurrently, and the attempts they
\* make between them, each request one attempt after the other.
MaxThreads == 2
MaxRequests == 3

Threads == 1..MaxThreads

\* What a server answers a signed POST with, as far as the pool is
\* concerned: success or badNonce with a fresh Replay-Nonce, or success
\* without that header.
PoolAnswers(s) ==
  { [class |-> "ok", nonce |-> Some(FreshNonce(s)), srv |-> Issued(s)],
    [class |-> "badNonce", nonce |-> Some(FreshNonce(s)), srv |-> Issued(s)],
    [class |-> "ok", nonce |-> None, srv |-> s] }

\* A pool operation as it was carried out: the pool and the server before
\* it, its argument, and what it returned.
PoolOp(op, arg, ret, s) ==
  [op |-> op, arg |-> arg, ret |-> ret, before |-> pool, srv |-> s]

ThreadsInit ==
  /\ thr = [t \in Threads |->
              [pc |-> "idle", nonce |-> None, header |-> None,
               class |-> ""]]
  /\ handed = <<>>
  /\ pop = PoolOp("none", None, None, srv)

\* The pool and the server of a fresh account; the rest of the account
\* flow is at rest.
PoolInit ==
  /\ akey = new(1)
  /\ pool = None
  /\ srv = [mode |-> "acme", next |-> 1, bad |-> 0, faults |-> 0,
            authz |-> "pending", order |-> "none", triggered |-> FALSE]
  /\ calls = <<>>
  /\ sent = <<>>
  /\ order = None
  /\ fauth = None
  /\ opc = "idle"
  /\ npoll = 0
  /\ begun = {}
  /\ cert = None
  /\ ThreadsInit

\* call, step 2, by request t: acquire under the pool's mutex. The request
\* is handed the stored nonce, or the one a HEAD newNonce fetches.
PoolAcquire(t) ==
  /\ thr[t].pc = "idle"
  /\ Len(handed) < MaxRequests
  /\ LET got == acquire(pool, srv)
     IN  /\ pool' = got.pool
         /\ srv' = got.srv
         /\ thr' = [thr EXCEPT ![t].pc = "posting",
                               ![t].nonce = Some(got.nonce)]
         /\ handed' = Append(handed, [nonce |-> got.nonce,
                                      stored |-> IsSome(pool)])
         /\ pop' = PoolOp("acquire", None, Some(got.nonce), srv)

\* call, steps 3-4, by request t: the signed POST and the server's answer.
\* The pool is not touched.
PoolPost(t) ==
  /\ thr[t].pc = "posting"
  /\ \E ans \in PoolAnswers(srv) :
       /\ srv' = ans.srv
       /\ thr' = [thr EXCEPT ![t].pc = "answered",
                             ![t].header = ans.nonce,
                             ![t].class = ans.class]
  /\ UNCHANGED <<pool, handed, pop>>

\* call, step 5, by request t: offer the Replay-Nonce of the response.
PoolOffer(t) ==
  /\ thr[t].pc = "answered"
  /\ pool' = offer(pool, thr[t].header)
  /\ thr' = [thr EXCEPT ![t].pc =
                          IF thr[t].class = "badNonce" THEN "rejected"
                          ELSE "idle",
                        ![t].nonce = None]
  /\ pop' = PoolOp("offer", thr[t].header, None, srv)
  /\ UNCHANGED <<srv, handed>>

\* call, step 7, by request t: after badNonce, invalidate; the request
\* then goes round again.
PoolInvalidate(t) ==
  /\ thr[t].pc = "rejected"
  /\ pool' = invalidate(pool)
  /\ thr' = [thr EXCEPT ![t].pc = "idle"]
  /\ pop' = PoolOp("invalidate", None, None, srv)
  /\ UNCHANGED <<srv, handed>>

PoolFrame ==
  UNCHANGED <<akey, calls, sent, order, fauth, opc, npoll, begun, cert,
              kret, proof, sauthz, keyVars, authVars>>

Acquire == (\E t \in Threads : PoolAcquire(t)) /\ PoolFrame
Post == (\E t \in Threads : PoolPost(t)) /\ PoolFrame
Offer == (\E t \in Threads : PoolOffer(t)) /\ PoolFrame
Invalidate == (\E t \in Threads : PoolInvalidate(t)) /\ PoolFrame

\* ------------------- order/auth.rs: Challenge::validate, run without end

\* The polling loop of validate with nothing to cut it short: the server
\* holds the authorization's status and answers every poll with it. The
\* calls and sleeps are not recorded, so that a loop that never ends is a
\* cycle of states.

LiveParked == sauthz = "pending"

LiveInit ==
  /\ auth = Auth_new(post_authz, AuthUrl)
  /\ chall = None
  /\ ValidateParked
  /\ sauthz = "pending"

\* The server settles the authorization: it leaves pending for good. Nothing
\* obliges it to.
ServerSettles ==
  /\ sauthz = "pending"
  /\ sauthz' \in AuthStatuses \ {"pending"}
  /\ UNCHANGED <<kret, proof, thr, handed, pop, keyVars, authVars, flowVars>>

\* validate, lines 230-232, as ValidateTrigger.
LiveTrigger ==
  /\ vpc = "idle"
  /\ IsSome(chall)
  /\ \E d \in Delays, res \in {"err", "bad_json", "ok"} :
       /\ delay' = d
       /\ IF res = "ok"
          THEN vpc' = "poll" /\ vres' = None
          ELSE vpc' = propagate(res).vpc /\ vres' = propagate(res).vres
  /\ UNCHANGED <<auth, chall, trace, polled, keyVars, flowVars, extraVars>>

\* wait_for_auth_status, lines 282-286, as ValidatePoll: the poll fails, or
\* reads an authorization in the status the server holds.
LivePoll ==
  /\ vpc = "poll"
  /\ \/ \E res \in {"err", "bad_json"} :
          /\ vpc' = propagate(res).vpc
          /\ vres' = propagate(res).vres
          /\ UNCHANGED <<polled, chall>>
     \/ \E a \in PolledAuths :
          /\ a.status = sauthz
          /\ IF break_loop(a)
             THEN /\ vpc' = "returned"
                  /\ polled' = Some(a)
                  /\ vres' = Some(validate_result(a))
                  /\ chall' = Some(self_after_validate(Unwrap(chall), a))
             ELSE vpc' = "sleep" /\ UNCHANGED <<polled, vres, chall>>
  /\ UNCHANGED <<auth, delay, trace, keyVars, flowVars, extraVars>>

\* wait_for_auth_status, line 287: thread::sleep(delay) returns.
LiveSleep ==
  /\ vpc = "sleep"
  /\ vpc' = "poll"
  /\ UNCHANGED <<auth, chall, delay, trace, polled, vres, keyVars, flowVars,
                 extraVars>>

\* --------------------------------------------- variables left at rest

ThreadsParked == thr = <<>> /\ handed = <<>> /\ pop = <<>>

\* ------------------------------------------------------- specifications

InitKey ==
  KeyInit /\ AuthParked /\ FlowParked /\ ProofParked /\ LiveParked
    /\ ThreadsParked

NextKey == KeyNew \/ KeyToPem \/ KeyFromPem \/ KeySetKeyId \/ KeyKeyId

SpecKey == InitKey /\ [][NextKey]_vars

InitAuth ==
  AuthInit /\ KeyParked /\ FlowParked /\ ProofParked /\ LiveParked
    /\ ThreadsParked

NextAuth == HttpChallenge \/ DnsChallenge \/ TlsAlpnChallenge

SpecAuth == InitAuth /\ [][NextAuth]_vars

NextValidate ==
  \/ HttpChallenge
  \/ DnsChallenge
  \/ TlsAlpnChallenge
  \/ ValidateTrigger
  \/ ValidatePoll
  \/ ValidateSleep

InitValidate ==
  ValidateInit /\ KeyParked /\ FlowParked /\ ProofParked /\ LiveParked
    /\ ThreadsParked

SpecValidate == InitValidate /\ [][NextValidate]_vars

InitFlow ==
  FlowInit /\ KeyParked /\ AuthParked /\ ProofParked /\ LiveParked
    /\ ThreadsParked

NextFlow ==
  \/ Register
  \/ NewOrder
  \/ Authorizations
  \/ Validate
  \/ PollAuth
  \/ Finalize
  \/ FinalizePost
  \/ PollOrder
  \/ Download
  \/ TransportAttempt

SpecFlow == InitFlow /\ [][NextFlow]_vars

InitProof ==
  KeyInit /\ ProofInit /\ FlowParked /\ LiveParked /\ ThreadsParked

NextProof ==
  \/ KeyNew
  \/ KeySetKeyId
  \/ HttpChallenge
  \/ DnsChallenge
  \/ TlsAlpnChallenge
  \/ HttpProof
  \/ DnsProof
  \/ TlsAlpnProof

SpecProof == InitProof /\ [][NextProof]_vars

InitPool == PoolInit /\ KeyParked /\ AuthParked /\ ProofParked /\ LiveParked

NextPool == Acquire \/ Post \/ Offer \/ Invalidate

SpecPool == InitPool /\ [][NextPool]_vars

InitLive ==
  LiveInit /\ KeyParked /\ FlowParked /\ ProofParked /\ ThreadsParked

NextLive ==
  \/ HttpChallenge
  \/ DnsChallenge
  \/ TlsAlpnChallenge
  \/ ServerSettles
  \/ LiveTrigger
  \/ LivePoll
  \/ LiveSleep

\* The thread that called validate keeps running: a poll that is due is
\* made, and a sleep ends.
SpecLive ==
  InitLive /\ [][NextLive]_vars /\ WF_vars(LivePoll) /\ WF_vars(LiveSleep)

\* ------------------------------------------------------------ properties

\* C1 as stated: once kid holds a value, no later set_key_id call changes
\* it (the kid is set exactly once).
C1_KidSetOnce ==
  [][(hist'.op = "set_key_id" /\ IsSome(key.key_id))
       => key'.key_id = key.key_id]_vars

\* C1 amended: a key made by new or from_pem has no kid; set_key_id(url)
\* always leaves kid = url and the signing key as it was, also when a kid
\* was already set; and no operation on the same key empties a kid.
C1_SetKidOverwrites ==
  [][/\ hist'.op = "set_key_id"
          => /\ key'.key_id = Some(hist'.arg)
             /\ key'.signing_key = key.signing_key
     /\ (hist'.op = "new" \/ (hist'.op = "from_pem" /\ hist'.ok))
          => key'.key_id = None
     /\ (hist'.op \in {"set_key_id", "to_pem"} /\ IsSome(key.key_id))
          => IsSome(key'.key_id)]_vars

\* A set_key_id has replaced a kid set earlier by another URL.
C1_Witness ==
  /\ hist.op = "set_key_id"
  /\ IsSome(Unwrap(hist.before).key_id)
  /\ Unwrap(hist.before).key_id # key.key_id

\* The last operation imported the PEM text of the key it was applied to.
RoundTripped ==
  /\ hist.op = "from_pem"
  /\ hist.arg = to_pem(Unwrap(hist.before))

\* C10 as stated: from_pem(to_pem(k)) equals k for any key k, also one whose
\* kid is set.
C10_RoundTripEqual ==
  RoundTripped => (hist.ok /\ key = Unwrap(hist.before))

\* C10 amended: from_pem(to_pem(k)) succeeds and has the signing key of k and
\* no kid; it equals k exactly when k has no kid.
C10_RoundTripSigningKey ==
  RoundTripped =>
    /\ hist.ok
    /\ key.signing_key = Unwrap(hist.before).signing_key
    /\ key.key_id = None
    /\ (key = Unwrap(hist.before)) <=> (Unwrap(hist.before).key_id = None)

\* A key with a kid has been exported and imported again.
C10_Witness ==
  /\ RoundTripped
  /\ hist.ok
  /\ IsSome(Unwrap(hist.before).key_id)

\* C2: validate first posts {} to the challenge's own URL, once; every later
\* request is a POST-as-GET of the authorization URL; a poll follows only a
\* successful trigger and only polls answered pending; and a validate that
\* returned after a successful trigger has polled at least once.
C2_RequestOrder ==
  vpc # "idle" =>
    LET reqs == Calls(trace)
        c == Unwrap(chall)
    IN  /\ Len(reqs) >= 1
        /\ reqs[1].url = c.api_challenge.url
        /\ reqs[1].payload = "{}"
        /\ \A i \in 2..Len(reqs) :
             /\ reqs[i].url = auth.auth_url
             /\ reqs[i].url # c.api_challenge.url
             /\ reqs[i].payload = ""
        /\ Len(reqs) >= 2 => reqs[1].res = "ok"
        /\ \A i \in 2..(Len(reqs) - 1) : reqs[i].res = "pending"
        /\ (vpc = "returned" /\ reqs[1].res = "ok") => Len(reqs) >= 2

\* validate has returned after two pending polls and a third, not pending.
C2_Witness ==
  /\ vpc = "returned"
  /\ Len(Calls(trace)) = 4
  /\ trace[Len(trace)].res = "invalid"

\* C3: when the polling loop ends on an authorization, that is the first
\* poll not answered pending, and validate returns success if its status is
\* valid and a validation failure for every other status.
C3_ResultByStatus ==
  (vpc = "returned" /\ IsSome(polled)) =>
    LET reqs == Calls(trace)
        a == Unwrap(polled)
        r == Unwrap(vres)
    IN  /\ a.status # "pending"
        /\ reqs[Len(reqs)].res = a.status
        /\ \A i \in 2..(Len(reqs) - 1) : reqs[i].res = "pending"
        /\ r.ok <=> a.status = "valid"
        /\ ~ r.ok => r.err[1] = "Validation failed: "

\* validate has failed on an authorization that is neither valid nor
\* invalid.
C3_Witness ==
  /\ vpc = "returned"
  /\ IsSome(polled)
  /\ Unwrap(polled).status = "expired"
  /\ ~ Unwrap(vres).ok

\* The text validate reports for one error object: its detail, or its type
\* when it has none.
ErrorText(e) == IF IsSome(e.detail) THEN Unwrap(e.detail) ELSE e.type

Generic == <<"Validation failed and no error found">>

\* validate has failed on a polled authorization.
FailedOnAuth ==
  /\ vpc = "returned"
  /\ IsSome(polled)
  /\ ~ Unwrap(vres).ok

\* C4 as stated: the failure carries the error of the first entry of the
\* polled challenge list (detail, else type), and the generic message when
\* that entry has no error, also when a later entry has one.
C4_FirstEntryError ==
  FailedOnAuth =>
    LET cs == Unwrap(polled).challenges
    IN  Unwrap(vres).err[2] =
          IF cs # <<>> /\ IsSome(cs[1].error)
          THEN <<"Failed: ", ErrorText(Unwrap(cs[1].error))>>
          ELSE Generic

\* C4 amended: the failure carries the error of the first challenge in list
\* order that has an error object (its detail, else its type), and the
\* generic message when no challenge of the list has one.
C4_FirstErrorInList ==
  FailedOnAuth =>
    LET cs == Unwrap(polled).challenges
        withError == { i \in DOMAIN cs : IsSome(cs[i].error) }
    IN  Unwrap(vres).err[2] =
          IF withError = {} THEN Generic
          ELSE LET i == CHOOSE j \in withError : \A k \in withError : j <= k
               IN  <<"Failed: ", ErrorText(Unwrap(cs[i].error))>>

\* validate has failed on an authorization whose first challenge has no
\* error while later ones have different errors.
C4_Witness ==
  /\ FailedOnAuth
  /\ LET cs == Unwrap(polled).challenges
     IN  /\ cs[1].error = None
         /\ IsSome(cs[2].error)
         /\ IsSome(cs[3].error)
         /\ cs[2].error # cs[3].error

\* C5 as stated: a challenge obtained from a valid authorization never needs
\* validation, whatever its own status; and the challenges of an
\* authorization whose challenges are all pending all need it.
C5_ValidAuthNeedsNoValidate ==
  IsSome(chall) =>
    /\ is_status_valid(auth.api_auth) => ~ need_validate(Unwrap(chall))
    /\ (\A i \in DOMAIN auth.api_auth.challenges :
          auth.api_auth.challenges[i].status = "pending")
         => need_validate(Unwrap(chall))

\* C5 amended: need_validate of a challenge obtained from an authorization
\* is true exactly when that challenge (the first of its type in the list)
\* is itself pending, whatever the authorization's status; so it is true
\* for each challenge when all are pending. What a valid authorization makes
\* false is need_challenge.
C5_NeedValidateIffChallengePending ==
  /\ need_challenge(auth) <=> auth.api_auth.status # "valid"
  /\ IsSome(chall) =>
       LET cs == auth.api_auth.challenges
           c == Unwrap(chall)
           same == { i \in DOMAIN cs : cs[i].type = c.api_challenge.type }
           first == CHOOSE j \in same : \A k \in same : j <= k
       IN  /\ same # {}
           /\ need_validate(c) <=> cs[first].status = "pending"
           /\ (\A i \in DOMAIN cs : cs[i].status = "pending")
                => need_validate(c)

\* A challenge obtained from a valid authorization needs validation.
C5_Witness ==
  /\ IsSome(chall)
  /\ is_status_valid(auth.api_auth)
  /\ need_validate(Unwrap(chall))

\* The nonce of the i-th signed request.
NonceOf(i) == sent[i].header.nonce

NoNonceTwice ==
  \A i, j \in DOMAIN sent : i # j => NonceOf(i) # NonceOf(j)

\* C6 as stated: no nonce value appears in the protected header of two
\* requests of the account, against any server, the mock server included.
C6_NoNonceReuse == NoNonceTwice

\* C6 amended: against a server that never issues a Replay-Nonce value twice
\* no nonce value appears in two protected headers; against the mock server
\* every signed request carries the one value its newNonce endpoint gives.
C6_NoReuseFromFreshServer ==
  /\ srv.mode = "acme" => NoNonceTwice
  /\ srv.mode = "mock" =>
       \A i \in DOMAIN sent :
         NonceOf(i)[1] = "8_uBBV3N2DBRJczhoiB46ugJKUkUHxGzVe6xIMpjHFM"

\* Three signed requests have gone to the mock server.
C6_Witness ==
  /\ srv.mode = "mock"
  /\ Len(sent) >= 3
  /\ NonceOf(1) = NonceOf(3)

\* The attempts of the k-th call, in the order they were sent.
IsAttemptOf(k, e) == e.call = k
AttemptsOf(k) ==
  LET Test(e) == IsAttemptOf(k, e) IN SelectSeq(sent, Test)

\* C7: a call makes at most 3 attempts; an attempt is followed by another
\* only if it was answered badNonce, and the next one uses a different
\* nonce; a call whose last attempt was not answered badNonce returns that
\* attempt's outcome; after 3 badNonce answers it returns TransportFailure;
\* no call returns BadNonce.
C7_BoundedBadNonceRetry ==
  \A k \in DOMAIN calls :
    LET a == AttemptsOf(k)
        c == calls[k]
    IN  /\ Len(a) <= 3
        /\ c.att = Len(a)
        /\ \A i \in 1..(Len(a) - 1) :
             /\ a[i].class = "badNonce"
             /\ a[i + 1].header.nonce # a[i].header.nonce
             /\ a[i + 1].header.url = a[i].header.url
             /\ a[i + 1].payload = a[i].payload
        /\ c.outcome \in {"inflight", "ok", "AcmeProblem", "TransportFailure"}
        /\ c.outcome = "inflight" =>
             (a = <<>> \/ (a[Len(a)].class = "badNonce" /\ Len(a) < 3))
        /\ c.outcome # "inflight" =>
             /\ a # <<>>
             /\ c.outcome =
                  CASE a[Len(a)].class = "ok" -> "ok"
                    [] a[Len(a)].class = "problem" -> "AcmeProblem"
                    [] OTHER -> "TransportFailure"
             /\ a[Len(a)].class = "badNonce" => Len(a) = 3

\* A call has returned TransportFailure after three badNonce answers.
C7_Witness ==
  \E k \in DOMAIN calls :
    /\ calls[k].outcome = "TransportFailure"
    /\ Len(AttemptsOf(k)) = 3
    /\ \A i \in 1..3 : AttemptsOf(k)[i].class = "badNonce"

\* C8: every signed request carries exactly one of jwk and kid; jwk exactly
\* when its url is newAccount or the account had no kid; so every request to
\* another URL carries the account's kid and no jwk, and the newAccount
\* requests are the only ones with an embedded jwk.
C8_JwkOrKid ==
  \A i \in DOMAIN sent :
    LET h == sent[i].header
    IN  /\ IsSome(h.jwk) # IsSome(h.kid)
        /\ IsSome(h.jwk) <=>
             (h.url = NewAccountUrl \/ sent[i].acct_kid = None)
        /\ h.url # NewAccountUrl =>
             /\ h.jwk = None
             /\ IsSome(akey.key_id)
             /\ h.kid = akey.key_id
        /\ IsSome(h.jwk) =>
             /\ h.url = NewAccountUrl
             /\ Unwrap(h.jwk)[3] = akey.signing_key

\* The account was created by a jwk-signed newAccount request and has since
\* signed two requests with its kid.
C8_Witness ==
  /\ Len(sent) >= 3
  /\ IsSome(sent[1].header.jwk)
  /\ sent[Len(sent)].header.kid = Some(AccountUrl)
  /\ sent[Len(sent) - 1].header.kid = Some(AccountUrl)

\* C9: a POST to the finalize URL is sent only while the order's
\* authorization is valid and the order ready, and a POST-as-GET to the
\* certificate URL only while the order is valid.
C9_FinalizeAndDownloadInOrder ==
  \A i \in DOMAIN sent :
    /\ sent[i].header.url = FinalizeUrl =>
         /\ sent[i].srv_authz = "valid"
         /\ sent[i].srv_order = "ready"
    /\ sent[i].header.url = CertUrl =>
         /\ sent[i].srv_order = "valid"
         /\ sent[i].payload = ""

\* The order has been finalized and its certificate downloaded.
C9_Witness ==
  /\ \E i \in DOMAIN sent : sent[i].header.url = FinalizeUrl
  /\ \E i \in DOMAIN sent : sent[i].header.url = CertUrl
  /\ IsSome(cert)

\* The JWK thumbprint of a key as the specification defines it for the
\* Account Key: the canonical JSON of the four-field JWK (crv, kty, x, y),
\* hashed with SHA-256, encoded base64url-unpadded.
thumbprint(k) ==
  base64url(sha256(<<"crv", "P-256", "kty", "EC",
                     "x", <<"x", k.signing_key>>,
                     "y", <<"y", k.signing_key>>>>))

\* The three proofs built on a given key authorization.
ProofsFrom(p, key_auth) ==
  p.value = CASE p.type = "http-01" -> key_auth
              [] p.type = "dns-01" -> base64url(sha256(key_auth))
              [] p.type = "tls-alpn-01" -> sha256(key_auth)

\* C11 as stated: with thumbprint(k) the base64url-unpadded SHA-256 of the
\* canonical JWK JSON, http_proof is token || "." || base64url(thumbprint(k)),
\* dns_proof the base64url of the SHA-256 of that key authorization, and
\* tls_alpn_proof its SHA-256.
C11_ProofsEncodeThumbprint ==
  IsSome(proof) =>
    LET p == Unwrap(proof)
    IN  ProofsFrom(p, <<p.of.api_challenge.token, ".",
                        base64url(thumbprint(p.key))>>)

\* C11 amended: the key authorization is token || "." || thumbprint(k), the
\* thumbprint being base64url-encoded once; http_proof is that key
\* authorization, dns_proof the base64url of its SHA-256, tls_alpn_proof its
\* SHA-256.
C11_ProofsFromThumbprint ==
  IsSome(proof) =>
    LET p == Unwrap(proof)
    IN  ProofsFrom(p, <<p.of.api_challenge.token, ".", thumbprint(p.key)>>)

\* A dns_proof has been computed for a key that carries a key ID.
C11_Witness ==
  /\ IsSome(proof)
  /\ Unwrap(proof).type = "dns-01"
  /\ IsSome(Unwrap(proof).key.key_id)

\* C12: a key from new() or from a successful from_pem() has no key ID;
\* key_id() on a key without key ID panics and returns no value; key_id()
\* on a key whose key ID was set to u returns u, so it does right after
\* set_key_id(u).
C12_KeyIdPanicsUntilSet ==
  /\ (hist.op = "new" \/ (hist.op = "from_pem" /\ hist.ok)) =>
        key.key_id = None
  /\ hist.op = "key_id" =>
        IF key.key_id = None
        THEN kret = Some([panic |-> TRUE, value |-> None])
        ELSE kret = Some([panic |-> FALSE, value |-> key.key_id])
  /\ hist.op = "set_key_id" =>
        key_id(key) = [panic |-> FALSE, value |-> Some(hist.arg)]

\* key_id() was called on a key without key ID and panicked.
C12_Witness ==
  /\ hist.op = "key_id"
  /\ IsSome(kret) /\ Unwrap(kret).panic
  /\ key.key_id = None

\* Every AcmeKey holding the signing key sk: without key ID, or with any.
KeysWith(sk) ==
  { [signing_key |-> sk, key_id |-> kid] :
      kid \in {None} \cup { Some(u) : u \in KidUrls } }

\* Every challenge of a type carrying a token: in any status, at any
\* challenge URL, under any authorization URL.
ChallengesWith(type, token) ==
  { [api_challenge |-> [type |-> type, status |-> s, url |-> u,
                        token |-> token, error |-> None],
     auth_url |-> au] :
      s \in ChallStatuses,
      u \in { ChallUrl(t) : t \in ChallTypes },
      au \in {AuthUrl, "/acme/authz/another"} }

\* C20: a proof is a function of the challenge token and the public
\* coordinates of the account key only. Any key with the same signing key,
\* with or without key ID, and any challenge with the same token, whatever
\* its status, URL and authorization URL, give the same proof; set_key_id
\* leaves the signing key and the proof as they are.
C20_ProofOfTokenAndKeyOnly ==
  IsSome(proof) =>
    LET p == Unwrap(proof)
    IN  /\ \A k2 \in KeysWith(p.key.signing_key) :
              \A c2 \in ChallengesWith(p.type, p.of.api_challenge.token) :
                proof_of(p.type, c2, k2) = p.value
        /\ \A u \in KidUrls :
              /\ signing_key(set_key_id(p.key, u)) = signing_key(p.key)
              /\ proof_of(p.type, p.of, set_key_id(p.key, u)) = p.value

\* A proof was computed, and set_key_id has since changed the key ID of the
\* key it was computed from.
C20_Witness ==
  /\ IsSome(proof)
  /\ hist.op = "set_key_id"
  /\ key.signing_key = Unwrap(proof).key.signing_key
  /\ key.key_id # Unwrap(proof).key.key_id

\* C13: validate never retries. A request that fails, or whose answer does
\* not parse, is the last thing validate does: it returns that failure, and
\* no poll follows a failed trigger and no request a failed poll.
C13_NoRetryAfterFailure ==
  \A i \in DOMAIN trace :
    (IsCall(trace[i]) /\ trace[i].res \in {"err", "bad_json"}) =>
      /\ i = Len(trace)
      /\ vpc = "returned"
      /\ vres = Some(Err(<<trace[i].res>>))

\* A poll failed after a poll answered pending, and validate returned.
C13_Witness ==
  /\ vpc = "returned"
  /\ Len(Calls(trace)) = 3
  /\ trace[Len(trace)].res = "err"

\* C17: the first poll follows the trigger with no sleep between; after
\* that, calls and sleeps alternate: every sleep follows a poll answered
\* pending, lasts the delay validate was called with, and is followed by
\* nothing but the next poll; a poll not answered pending is the last
\* event, and validate never returns on a sleep.
C17_OneSleepBetweenPolls ==
  vpc # "idle" =>
    /\ IsCall(trace[1])
    /\ \A i \in 2..Len(trace) :
         IF i % 2 = 0
         THEN /\ IsCall(trace[i])
              /\ trace[i].res # "pending" => i = Len(trace)
         ELSE /\ trace[i].ev = "sleep"
              /\ trace[i].dur = delay
              /\ trace[i - 1].res = "pending"
    /\ vpc = "returned" => IsCall(trace[Len(trace)])
    /\ vpc = "poll" => (Len(trace) = 1 \/ trace[Len(trace)].ev = "sleep")
    /\ vpc = "sleep" => trace[Len(trace)].res = "pending"

\* validate returned after three polls and the two sleeps between them,
\* called with a delay that is not zero.
C17_Witness ==
  /\ vpc = "returned"
  /\ Len(trace) = 6
  /\ delay > 0
  /\ trace[3].ev = "sleep" /\ trace[5].ev = "sleep"

\* C19: no step of validate changes the client's Auth or Challenge: the
\* authorization's status and challenge list, the challenge held,
\* need_challenge() and need_validate() are after the step what they were
\* before it.
C19_ValidateLeavesObjects ==
  [][vpc' # "idle" =>
       /\ auth' = auth
       /\ chall' = chall
       /\ need_challenge(auth') = need_challenge(auth)
       /\ need_validate(Unwrap(chall')) = need_validate(Unwrap(chall))]_vars

\* validate returned success, and the Auth and the Challenge of the client
\* still say that a challenge and a validation are needed.
C19_Witness ==
  /\ vpc = "returned"
  /\ vres = Some(Ok)
  /\ need_challenge(auth)
  /\ need_validate(Unwrap(chall))

\* C14: the pool holds zero or one nonce in every reachable state. acquire
\* returns a nonce and leaves the pool empty: the stored nonce when there
\* was one, else the Replay-Nonce a HEAD newNonce fetched. offer of a nonce
\* leaves the pool holding exactly that nonce, whatever it held before.
\* invalidate leaves the pool empty.
C14_PoolZeroOrOne ==
  /\ Len(pool) <= 1
  /\ pop.op = "acquire" =>
        /\ pool = None
        /\ IsSome(pop.ret)
        /\ IsSome(pop.before) => pop.ret = pop.before
        /\ pop.before = None =>
              pop.ret = HeadNewNonce(pop.srv).resp.nonce
  /\ (pop.op = "offer" /\ IsSome(pop.arg)) => pool = pop.arg
  /\ pop.op = "invalidate" => pool = None

\* An offer has overwritten a nonce another request had stored.
C14_Witness ==
  /\ pop.op = "offer"
  /\ IsSome(pop.arg)
  /\ IsSome(pop.before)
  /\ pop.before # pop.arg

\* The requests that hold a nonce they have not yet got an answer for.
Posting == { t \in Threads : thr[t].pc = "posting" }

\* C15: with concurrent requests of one account, in every interleaving, no
\* two requests in flight hold the same nonce, and a nonce the pool had
\* stored is handed to one request only: no other request is handed it,
\* from the pool or otherwise.
C15_PoolSerialized ==
  /\ \A t, u \in Posting : t # u => thr[t].nonce # thr[u].nonce
  /\ \A i, j \in DOMAIN handed :
        (i # j /\ handed[i].stored) => handed[i].nonce # handed[j].nonce

\* Two requests are in flight at once, one of them on a nonce that a
\* response had offered to the pool.
C15_Witness ==
  /\ Cardinality(Posting) >= 2
  /\ \E t \in Posting :
        \E i \in DOMAIN handed :
          handed[i].stored /\ Some(handed[i].nonce) = thr[t].nonce

\* validate returned because a request failed or did not parse.
RequestFailed ==
  /\ vpc = "returned"
  /\ vres \in { Some(Err(<<res>>)) : res \in {"err", "bad_json"} }

\* C18: once the server has left pending, a validate that is under way
\* returns; as long as the server reports pending, validate returns only on
\* a failed request, never with a verdict or a timeout; and if the server
\* reports pending forever and no request fails, validate polls forever.
C18_TerminatesIffNotPendingForever ==
  /\ (vpc \in {"poll", "sleep"} /\ sauthz # "pending") ~> (vpc = "returned")
  /\ [](sauthz = "pending") => [](vpc = "returned" => RequestFailed)
  /\ ([](sauthz = "pending") /\ [](vpc # "returned") /\ <>(vpc = "poll"))
       => []<>(vpc = "poll")

\* The server still reports pending, a poll has read that, and validate
\* sleeps before it polls again.
C18_Witness == vpc = "sleep" /\ sauthz = "pending"

\* C16 as stated: against the mock server, a successful poll of the order
\* URL leaves the client with an order whose status is valid, and a
\* successful download with the body CERT HERE.
C16_MockOrderValid ==
  (srv.mode = "mock" /\ calls # <<>> /\ Last(calls).outcome = "ok") =>
    /\ Last(calls).op \in {"refresh_order", "poll_order"} =>
          Unwrap(order).status = "valid"
    /\ Last(calls).op = "download" => cert = Some("CERT HERE")

====
